---- MODULE Spec2Model ----
(***************************************************************************)
(* Playwright RPA agent: the validator, the LLM gateway's retrying call,   *)
(* the execution runner and the UI pipeline that wires them together.      *)
(*                                                                         *)
(* Text is a sequence of one-character strings, so that substring search,  *)
(* prefixes and suffixes are computed the way Python computes them.        *)
(***************************************************************************)
EXTENDS Integers, Sequences, FiniteSets, TLC

\* ------------------------------------------------------------------ bounds
\* longest code string the validator specification enumerates
MaxLen == 4
\* largest llm_max_retries the retry specification configures
MaxRetries == 4
\* largest llm_retry_delay (seconds) the retry specification configures
MaxDelay == 2
\* repair cycles the pipeline specification follows before it stops counting
MaxCycles == 4
\* largest execution_timeout and recording_timeout (seconds) the timeout
\* specification configures
MaxTimeout == 3

\* ------------------------------------------------------------ text helpers
\* all texts over alphabet A of length 0..n
TextsUpTo(A, n) == UNION {[1..k -> A] : k \in 0..n}

\* Python: s.startswith(p)
StartsWith(s, p) == Len(p) <= Len(s) /\ SubSeq(s, 1, Len(p)) = p

\* Python: s.endswith(p)
EndsWith(s, p) == Len(p) <= Len(s) /\ SubSeq(s, Len(s) - Len(p) + 1, Len(s)) = p

\* a Contains that only looks at the start of the text
ContainsPrefixOnly(s, p) == StartsWith(s, p)

\* Python: p in s  (substring search over the whole text)
Contains(s, p) == \E i \in 0..(Len(s) - Len(p)) : SubSeq(s, i + 1, i + Len(p)) = p

\* Python: str.strip() removes these from both ends
Whitespace == {" ", "\n", "\t"}

RECURSIVE LStrip(_)
LStrip(s) == IF s # <<>> /\ Head(s) \in Whitespace THEN LStrip(Tail(s)) ELSE s

RECURSIVE RStrip(_)
RStrip(s) ==
    IF s # <<>> /\ s[Len(s)] \in Whitespace THEN RStrip(SubSeq(s, 1, Len(s) - 1)) ELSE s

Strip(s) == LStrip(RStrip(s))

\* s[n:]
DropFirst(s, n) == SubSeq(s, n + 1, Len(s))

\* s[:-n]
DropLast(s, n) == SubSeq(s, 1, Len(s) - n)

\* "# Error calling LLM: "
ErrLLMPrefix == <<"#", " ", "E", "r", "r", "o", "r", " ", "c", "a", "l", "l", "i", "n", "g", " ", "L", "L", "M", ":", " ">>
\* "Error analyzing code: "
ErrAnalyzePrefix == <<"E", "r", "r", "o", "r", " ", "a", "n", "a", "l", "y", "z", "i", "n", "g", " ", "c", "o", "d", "e", ":", " ">>
\* "# Error", the mark run_script_wrapper looks for
ErrMark == <<"#", " ", "E", "r", "r", "o", "r">>
\* "# Error: "
ErrWrapPrefix == <<"#", " ", "E", "r", "r", "o", "r", ":", " ">>
\* "Error: "
ErrPlainPrefix == <<"E", "r", "r", "o", "r", ":", " ">>
\* "# Recording failed or cancelled"
RecFailed == <<"#", " ", "R", "e", "c", "o", "r", "d", "i", "n", "g", " ", "f", "a", "i", "l", "e", "d", " ", "o", "r", " ", "c", "a", "n", "c", "e", "l", "l", "e", "d">>
\* "Please provide API Key"
NeedKeyMsg == <<"P", "l", "e", "a", "s", "e", " ", "p", "r", "o", "v", "i", "d", "e", " ", "A", "P", "I", " ", "K", "e", "y">>
\* "Please provide Base URL"
NeedUrlMsg == <<"P", "l", "e", "a", "s", "e", " ", "p", "r", "o", "v", "i", "d", "e", " ", "B", "a", "s", "e", " ", "U", "R", "L">>
\* "Missing API Key"
MissingKeyMsg == <<"M", "i", "s", "s", "i", "n", "g", " ", "A", "P", "I", " ", "K", "e", "y">>
\* the backtick character, which no string of the module can hold
BT == "BACKTICK"
\* the fence marker: three backticks
Fence == <<BT, BT, BT>>
\* the fence marker with the python language tag
FencePython == Fence \o <<"p", "y", "t", "h", "o", "n">>
\* "exceptions must derive from BaseException"
TypeErrorMsg == <<"e", "x", "c", "e", "p", "t", "i", "o", "n", "s", " ", "m", "u", "s", "t", " ", "d", "e", "r", "i", "v", "e", " ", "f", "r", "o", "m", " ", "B", "a", "s", "e", "E", "x", "c", "e", "p", "t", "i", "o", "n">>
\* "sleep length must be non-negative"
ValueErrorMsg == <<"s", "l", "e", "e", "p", " ", "l", "e", "n", "g", "t", "h", " ", "m", "u", "s", "t", " ", "b", "e", " ", "n", "o", "n", "-", "n", "e", "g", "a", "t", "i", "v", "e">>

\* ------------------------------------------------------------------ config
\* AppConfig.blocked_imports as the model's alphabet spells it: "ex" stands
\* for a call name such as exec/eval, "x(" for a call form such as os.system(
BlockedDefault == << <<"e", "x">>, <<"x", "(">> >>

BlockedLists == { <<>>, << <<"e", "x">> >>, BlockedDefault }

\* AppConfig(): the defaults of the dataclass
DefaultConfig ==
    [ enable_code_validation |-> TRUE,
      blocked_imports        |-> BlockedDefault,
      execution_timeout      |-> 300,
      recording_timeout      |-> 600,
      llm_max_retries        |-> 3,
      llm_retry_delay        |-> 1,
      max_fix_retries        |-> 3 ]

\* --------------------------------------------------------------- validator
\* the characters code strings are drawn from: two letters, an opening
\* bracket, a newline and the comment sign
Chars == {"e", "x", "(", "\n", "#"}

RECURSIVE ScanOpen(_, _, _, _, _)
\* line of the innermost "(" still open at the end of the text, 0 when none:
\* a "(" inside a comment does not count, a newline ends the comment
ScanOpen(code, i, line, incomment, open) ==
    IF i > Len(code) THEN open
    ELSE LET ch == code[i] IN
         IF ch = "\n" THEN ScanOpen(code, i + 1, line + 1, FALSE, open)
         ELSE IF incomment THEN ScanOpen(code, i + 1, line, TRUE, open)
         ELSE IF ch = "#" THEN ScanOpen(code, i + 1, line, TRUE, open)
         ELSE IF ch = "(" THEN ScanOpen(code, i + 1, line, FALSE, line)
         ELSE ScanOpen(code, i + 1, line, FALSE, open)

\* compile(code, '<string>', 'exec') on texts over Chars: the only syntax
\* error such a text can have is a bracket that is never closed
compile(code) ==
    LET l == ScanOpen(code, 1, 1, FALSE, 0) IN
    IF l = 0 THEN [ok |-> TRUE]
    ELSE [ok |-> FALSE, lineno |-> l, msg |-> "'(' was never closed"]

BlockedIssue(blocked) ==
    [fmt |-> "Potentially dangerous code detected: '{blocked}'", blocked |-> blocked]

SyntaxIssue(e) ==
    [fmt |-> "Syntax error at line {e.lineno}: {e.msg}", lineno |-> e.lineno, msg |-> e.msg]

RECURSIVE BlockedIssues(_, _)
\* the loop over config.blocked_imports, in the order of the list
BlockedIssues(code, blocked_imports) ==
    IF blocked_imports = <<>> THEN <<>>
    ELSE (IF Contains(code, Head(blocked_imports))
            THEN <<BlockedIssue(Head(blocked_imports))>> ELSE <<>>)
         \o BlockedIssues(code, Tail(blocked_imports))

\* validate without the deny-list loop
ValidateNoDenyList(code, cfg) ==
    IF ~cfg.enable_code_validation THEN [is_valid |-> TRUE, issues |-> <<>>]
    ELSE LET e == compile(code)
             issues == IF e.ok THEN <<>> ELSE <<SyntaxIssue(e)>>
         IN [is_valid |-> Len(issues) = 0, issues |-> issues]

\* validate without the early return on the policy flag
ValidateIgnoresFlag(code, cfg) ==
    LET e == compile(code)
        issues == BlockedIssues(code, cfg.blocked_imports)
                  \o (IF e.ok THEN <<>> ELSE <<SyntaxIssue(e)>>)
    IN [is_valid |-> Len(issues) = 0, issues |-> issues]

\* validate without the compile step
ValidateNoCompile(code, cfg) ==
    IF ~cfg.enable_code_validation THEN [is_valid |-> TRUE, issues |-> <<>>]
    ELSE LET issues == BlockedIssues(code, cfg.blocked_imports)
         IN [is_valid |-> Len(issues) = 0, issues |-> issues]

\* validate with a verdict that looks at the syntax only
ValidateSyntaxVerdict(code, cfg) ==
    IF ~cfg.enable_code_validation THEN [is_valid |-> TRUE, issues |-> <<>>]
    ELSE LET e == compile(code)
             issues == BlockedIssues(code, cfg.blocked_imports)
                       \o (IF e.ok THEN <<>> ELSE <<SyntaxIssue(e)>>)
         IN [is_valid |-> e.ok, issues |-> issues]

\* validate that checks the syntax only when the deny list found nothing
ValidateStopsAtDenyList(code, cfg) ==
    IF ~cfg.enable_code_validation THEN [is_valid |-> TRUE, issues |-> <<>>]
    ELSE LET e == compile(code)
             found == BlockedIssues(code, cfg.blocked_imports)
             issues == found \o (IF e.ok \/ found # <<>> THEN <<>> ELSE <<SyntaxIssue(e)>>)
         IN [is_valid |-> Len(issues) = 0, issues |-> issues]

\* CodeValidator.validate
Validate(code, cfg) ==
    IF ~cfg.enable_code_validation THEN [is_valid |-> TRUE, issues |-> <<>>]
    ELSE LET e == compile(code)
             issues == BlockedIssues(code, cfg.blocked_imports)
                       \o (IF e.ok THEN <<>> ELSE <<SyntaxIssue(e)>>)
         IN [is_valid |-> Len(issues) = 0, issues |-> issues]

\* ------------------------------------------------------------- LLM gateway
\* exceptions: a class name and str(e)
NoError == [type |-> "None", msg |-> <<>>]

\* what the chat-completion call raises when it fails
ApiErrors == { [type |-> "APIError", msg |-> <<"4", "2", "9">>],
               [type |-> "APIError", msg |-> <<"5", "0", "0">>] }

\* raise None
TypeErrorNone == [type |-> "TypeError", msg |-> TypeErrorMsg]

\* time.sleep(negative)
ValueErrorSleep == [type |-> "ValueError", msg |-> ValueErrorMsg]

\* completions the model returns: plain, fenced with a language tag, fenced
\* without one, padded with whitespace, a fenced block inside a fenced block,
\* and a fenced code whose first line is indented
Completions ==
    { <<"x">>,
      FencePython \o <<"\n", "x", "\n">> \o Fence,
      Fence \o <<"\n", "e", "x", "\n">> \o Fence,
      <<" ", "e", "\n">>,
      Fence \o <<"\n">> \o FencePython \o <<"\n", "x", "\n">> \o Fence \o <<"\n">> \o Fence,
      FencePython \o <<"\n", " ", "x", "\n">> \o Fence }

\* the completions and the failure the pipeline specification follows
PipelineCompletions ==
    { FencePython \o <<"\n", "x", "\n">> \o Fence,
      Fence \o <<"\n", "e", "x", "\n">> \o Fence }

PipelineErrors == { [type |-> "APIError", msg |-> <<"4", "2", "9">>] }

\* LLMClient._clean_output
CleanOutput(text) ==
    LET t1 == Strip(text)
        t2 == IF StartsWith(t1, FencePython) THEN DropFirst(t1, 9)
              ELSE IF StartsWith(t1, Fence) THEN DropFirst(t1, 3)
              ELSE t1
        t3 == IF EndsWith(t2, Fence) THEN DropLast(t2, 3) ELSE t2
    IN Strip(t3)

\* a loop that runs one attempt too many
InRangeInclusive(attempt, max_retries) == attempt <= max_retries

\* for attempt in range(self.max_retries): the loop takes index attempt
InRange(attempt, max_retries) == attempt < max_retries

\* if attempt < self.max_retries - 1: the failure of this attempt is slept on
SleepsAfter(attempt, max_retries) == attempt < max_retries - 1

\* a backoff that multiplies where the code exponentiates
WaitTimeLinear(retry_delay, attempt) == retry_delay * (2 * attempt)

\* wait_time = self.retry_delay * (2 ** attempt)
WaitTime(retry_delay, attempt) == retry_delay * (2 ^ attempt)

\* raise last_error: raising None is a TypeError
RaiseLastError(last) == IF last = NoError THEN TypeErrorNone ELSE last

\* a handler that catches the API's errors only
CatchesApiOnly(e) == e.type = "APIError"

\* except Exception as e: every error the call can end with derives from it
Catches(e) == e.type \in {"APIError", "TypeError", "ValueError"}

\* the string each operation returns from its except branch
ErrorReturn(o, e) ==
    IF o = "analyze_error" THEN ErrAnalyzePrefix \o e.msg ELSE ErrLLMPrefix \o e.msg

Operations == {"refine_code", "fix_code", "analyze_error"}

\* -------------------------------------------------------- execution runner
\* what the child process python <script_path> does: it exits with a status
\* and its two streams captured, outlives the timeout, or cannot be launched
ProcOutcomes ==
    { [kind |-> "exit", returncode |-> 0, stdout |-> <<"H", "i">>, stderr |-> <<>>, msg |-> <<>>],
      [kind |-> "exit", returncode |-> 0, stdout |-> <<>>, stderr |-> <<"w">>, msg |-> <<>>],
      [kind |-> "exit", returncode |-> 1, stdout |-> <<>>, stderr |-> <<"B", "o", "o", "m">>, msg |-> <<>>],
      [kind |-> "exit", returncode |-> 2, stdout |-> <<"H", "i">>, stderr |-> <<>>, msg |-> <<>>],
      [kind |-> "timeout", returncode |-> 0, stdout |-> <<"H", "i">>, stderr |-> <<>>, msg |-> <<>>],
      [kind |-> "error", returncode |-> 0, stdout |-> <<>>, stderr |-> <<>>, msg |-> <<"n", "o", " ", "p", "y">>] }

\* what open(script_path, "w") and f.write(code) do: the file is written, the
\* open fails (the file stays as it was), or the write fails after the open
\* truncated the file
WriteOutcomes == {"ok", "open_fails", "write_fails"}

\* stderr of a rejected call: "Validation failed:\n" and one "- issue" line
\* for each issue
ValidationStderr(issues) ==
    [fmt |-> "Validation failed:\n{issues_text}", issues_text |-> issues]

\* stderr of a call whose child outlived the timeout
TimeoutStderr(cfg) ==
    [fmt |-> "Execution timed out after {execution_timeout} seconds.",
     execution_timeout |-> cfg.execution_timeout]

\* a stream or a message handed on as it is
Plain(text) == [text |-> text]

\* (stdout, stderr, success_boolean)
Triple(out, err, success) == [stdout |-> out, stderr |-> err, success |-> success]

\* a runner that only warns about invalid code
RejectsNothing(skip_validation, v) == FALSE

\* a runner that validates whatever skip_validation says
RejectsIgnoringSkip(skip_validation, v) == ~v.is_valid

\* if not skip_validation: ... if not is_valid: return
Rejects(skip_validation, v) == ~skip_validation /\ ~v.is_valid

\* an outcome mapping that takes every exit of the child for a success
MapOutcomeAnyExit(p, cfg) ==
    IF p.kind = "exit" THEN Triple(Plain(p.stdout), Plain(p.stderr), TRUE)
    ELSE IF p.kind = "timeout" THEN Triple(Plain(<<>>), TimeoutStderr(cfg), FALSE)
    ELSE Triple(Plain(<<>>), Plain(p.msg), FALSE)

\* the try block around subprocess.run and its two except branches
MapOutcome(p, cfg) ==
    IF p.kind = "exit"
      THEN Triple(Plain(p.stdout), Plain(p.stderr), p.returncode = 0)
    ELSE IF p.kind = "timeout" THEN Triple(Plain(<<>>), TimeoutStderr(cfg), FALSE)
    ELSE Triple(Plain(<<>>), Plain(p.msg), FALSE)

\* the error open() or f.write() raises
OSErrorWrite == [type |-> "OSError", msg |-> <<"d", "e", "n", "i", "e", "d">>]

\* the children the pipeline specification follows: a success, a failure
\* and a timeout
PipelineProcs ==
    {p \in ProcOutcomes : p.stdout = <<"H", "i">> \/ p.returncode = 1}

\* the saves the pipeline specification follows: the file is written, or
\* the open fails
PipelineWrites == {"ok", "open_fails"}

\* code strings handed to the runner: well-formed and harmless, deny-listed,
\* deny-listed inside a comment, not parsing, empty
RunCodes == { <<"x">>, <<"e", "x">>, <<"#", "e", "x">>, <<"x", "(">>, <<"(">>, <<>> }

\* ------------------------------------------------------------- UI pipeline
\* what an operation of the gateway hands back under the default retry
\* policy: the cleaned completion, or its error string once the attempts are
\* exhausted
GatewayReturns(o) ==
    {CleanOutput(c) : c \in PipelineCompletions}
        \cup {ErrorReturn(o, e) : e \in PipelineErrors}

\* LLMClient(...) itself can fail, in the OpenAI constructor
CtorError == [type |-> "OpenAIError", msg |-> <<"c", "t", "o", "r">>]

\* what the text boxes of the credentials hold
Credentials ==
    { [api_key |-> <<"k">>, base_url |-> <<"u">>],
      [api_key |-> <<>>,    base_url |-> <<"u">>],
      [api_key |-> <<"k">>, base_url |-> <<>>] }

\* code the operator types into the editable refined-code area
EditedCodes == { <<"x">>, <<"#", "e", "x">>, <<"(">> }

\* console texts of run_script_wrapper
NoValidCode == [fmt |-> "No valid code to run"]
ValidationFailed(issues) ==
    [fmt |-> "Validation Failed:\n{issues_text}", issues_text |-> issues]
RunOutput(triple) ==
    [fmt |-> IF triple.success THEN "Success!\n{output}" ELSE "Error:\n{output}",
     stdout |-> triple.stdout, stderr |-> triple.stderr]
EmptyConsole == [fmt |-> ""]

\* a wrapper that runs whatever is in the code area
RefusesNothing(code) == FALSE

\* if not code or code.startswith("# Error")
Refuses(code) == code = <<>> \/ StartsWith(code, ErrMark)

\* ---------------------------------------------------------------- recorder
\* how a recording session ends: playwright exits 0, outlives
\* recording_timeout, exits non-zero, is not installed, or cannot be started
\* for another reason
RecorderOutcomes == {"ok", "timeout", "nonzero", "notfound", "oserror"}

\* what subprocess.run(cmd, check=True, timeout=...) raises for each ending
RecorderRaises(r) ==
    CASE r = "ok"       -> [type |-> "None", msg |-> <<>>]
      [] r = "timeout"  -> [type |-> "TimeoutExpired", msg |-> <<>>]
      [] r = "nonzero"  -> [type |-> "CalledProcessError", msg |-> <<>>]
      [] r = "notfound" -> [type |-> "FileNotFoundError", msg |-> <<>>]
      [] r = "oserror"  -> [type |-> "PermissionError", msg |-> <<"d", "e", "n", "i", "e", "d">>]

\* a recorder that catches every error of the launch
RecorderCatchesAll(e) == TRUE

\* the three except clauses of start_recording
RecorderCatches(e) ==
    e.type \in {"TimeoutExpired", "CalledProcessError", "FileNotFoundError"}

\* a process that was never started writes nothing
SessionWrites(r, w) == r \in {"notfound", "oserror"} => w = [none |-> TRUE]

\* a reader that finds nothing
GetRecordedCodeEmpty(file) == <<>>

\* Recorder.get_recorded_code
GetRecordedCode(file) == IF file.exists THEN file.content ELSE <<>>

\* cmd of start_recording: the url is appended when it is given
RecorderCmd(url) ==
    <<"playwright", "codegen", "-o", "playwright_recording_temp.py">>
        \o (IF url = "" THEN <<>> ELSE <<url>>)

Urls == {"", "https://example.com"}

\* what the sessions of the recorder specification write to output_path
SessionCodes == { <<"x">>, <<"e">>, <<"x", "\n", "e">> }

\* ------------------------------------------------------------- timed wait
\* subprocess.run(..., timeout=t) without a timeout
NeverTimedOut(elapsed, timeout) == FALSE

\* subprocess.run(..., timeout=t): the wait has lasted t seconds
TimedOut(elapsed, timeout) == elapsed >= timeout

\* the two callers of subprocess.run and the timeout each passes
Callers == {"run_code", "start_recording"}

TimeoutOf(c, cfg) ==
    IF c = "run_code" THEN cfg.execution_timeout ELSE cfg.recording_timeout

\* exit statuses of the child
ExitCodes == {0, 1}

\* ------------------------------------------------------------ script path
\* two sessions, each with a CodeRunner
Sessions == {1, 2}

\* CodeRunner(script_path): the default of the module-global runner and a
\* path of its own
Paths == {"generated_bot.py", "session_bot.py"}

\* codes the two sessions run: two the validator accepts, one it turns away
RaceCodes == { <<"x">>, <<"e">>, <<"e", "x">> }

\* an open() that lands on every script path
WriteAllPaths(fs, path, code) == [q \in DOMAIN fs |-> [exists |-> TRUE, content |-> code]]

\* with open(self.script_path, "w") as f: f.write(code)
WritePath(fs, path, code) == [fs EXCEPT ![path] = [exists |-> TRUE, content |-> code]]

\* ------------------------------------------------ provider configuration
\* Python's None where a string is expected
None == "<None>"

\* None where an object is expected: nothing returned, nothing there
NoResult == [none |-> TRUE]

Fields == {"api_key", "base_url", "model_name"}

DEFAULT_PROVIDERS ==
    [ openai   |-> [base_url |-> "https://api.openai.com/v1", default_model |-> "gpt-4o"],
      deepseek |-> [base_url |-> "https://api.deepseek.com/v1", default_model |-> "deepseek-chat"],
      claude   |-> [base_url |-> "https://api.anthropic.com/v1",
                    default_model |-> "claude-3-5-sonnet-20241022"],
      ollama   |-> [base_url |-> "http://localhost:11434/v1", default_model |-> "llama3.2"],
      custom   |-> [base_url |-> "", default_model |-> ""] ]

LLMProviderConfig(name, api_key, base_url, model_name) ==
    [name |-> name, api_key |-> api_key, base_url |-> base_url, model_name |-> model_name]

\* __post_init__: every default provider the dict lacks is added
PostInit(provs) ==
    [n \in DOMAIN provs \cup DOMAIN DEFAULT_PROVIDERS |->
        IF n \in DOMAIN provs THEN provs[n]
        ELSE LLMProviderConfig(n, "", DEFAULT_PROVIDERS[n].base_url,
                               DEFAULT_PROVIDERS[n].default_model)]

\* AppConfig(): active provider openai, the default providers
AppConfig == [active_provider |-> "openai", providers |-> PostInit([n \in {} |-> NoResult])]

\* self.providers.get(self.active_provider)
get_active_provider(active, provs) ==
    IF active \in DOMAIN provs THEN provs[active] ELSE NoResult

\* set_provider: the entry is created when missing, and each argument that
\* is not None is stored
set_provider(provs, name, api_key, base_url, model_name) ==
    LET known == IF name \in DOMAIN provs THEN provs
                 ELSE [n \in DOMAIN provs \cup {name} |->
                          IF n = name THEN LLMProviderConfig(name, "", "", "") ELSE provs[n]]
    IN [known EXCEPT ![name] =
          [@ EXCEPT !.api_key = IF api_key # None THEN api_key ELSE @,
                    !.base_url = IF base_url # None THEN base_url ELSE @,
                    !.model_name = IF model_name # None THEN model_name ELSE @]]

\* a switch that takes every name
ConfiguredAlways(name, provs) == TRUE

\* switch_provider: if name in self.providers
Configured(name, provs) == name \in DOMAIN provs

\* AppConfig.from_dict on the provider part of the file's data
from_dict(data) ==
    [active_provider |-> IF "active_provider" \in DOMAIN data THEN data.active_provider
                         ELSE "openai",
     providers |-> PostInit(IF "providers" \in DOMAIN data THEN data.providers
                            ELSE [n \in {} |-> NoResult])]

\* env_mappings of _load_from_env, in the order of the dict
env_mappings ==
    << [var |-> "OPENAI_API_KEY",    provider |-> "openai",   field |-> "api_key"],
       [var |-> "OPENAI_BASE_URL",   provider |-> "openai",   field |-> "base_url"],
       [var |-> "DEEPSEEK_API_KEY",  provider |-> "deepseek", field |-> "api_key"],
       [var |-> "DEEPSEEK_BASE_URL", provider |-> "deepseek", field |-> "base_url"],
       [var |-> "ANTHROPIC_API_KEY", provider |-> "claude",   field |-> "api_key"],
       [var |-> "CLAUDE_API_KEY",    provider |-> "claude",   field |-> "api_key"],
       [var |-> "LLM_API_KEY",       provider |-> "active",   field |-> "api_key"],
       [var |-> "LLM_BASE_URL",      provider |-> "active",   field |-> "base_url"],
       [var |-> "LLM_MODEL",         provider |-> "active",   field |-> "model_name"] >>

EnvVars == {env_mappings[i].var : i \in 1..Len(env_mappings)}

\* if value: a variable that is unset or empty is skipped
IsSet(env, var) == env[var] # None /\ env[var] # ""

\* _load_from_env: the settings found, in the order _merge_env_config meets
\* them. env_config groups them by provider in order of first insertion, and
\* the mappings of one provider are adjacent, so that order is the order of
\* env_mappings; a later value for the same field replaces the earlier one
\* in the dict, as it does when both are applied in turn
load_from_env(env) ==
    LET found == SelectSeq(env_mappings, LAMBDA e : IsSet(env, e.var))
    IN [k \in 1..Len(found) |->
          [provider |-> found[k].provider, field |-> found[k].field,
           value |-> env[found[k].var]]]

\* setattr(provider, field, value) on the entry called name
SetField(provs, name, field, value) ==
    [provs EXCEPT ![name] =
       [@ EXCEPT !.api_key = IF field = "api_key" THEN value ELSE @,
                 !.base_url = IF field = "base_url" THEN value ELSE @,
                 !.model_name = IF field = "model_name" THEN value ELSE @]]

RECURSIVE merge_env_config(_, _, _)
\* _merge_env_config: "active" goes to the active provider when there is
\* one, any other name to the provider of that name when it is configured
merge_env_config(cfg, env_config, i) ==
    IF i > Len(env_config) THEN cfg
    ELSE LET e == env_config[i]
             target == IF e.provider = "active" THEN cfg.active_provider ELSE e.provider
         IN IF target \in DOMAIN cfg.providers
            THEN merge_env_config(
                   [cfg EXCEPT !.providers = SetField(@, target, e.field, e.value)],
                   env_config, i + 1)
            ELSE merge_env_config(cfg, env_config, i + 1)

\* the file at config_path
NoConfigFile == [exists |-> FALSE]
BadConfigFile == [exists |-> TRUE, json_ok |-> FALSE]
ConfigFile(data) == [exists |-> TRUE, json_ok |-> TRUE, data |-> data]

\* ConfigManager.load: the file when it exists and parses, the default
\* configuration otherwise, and the environment merged into either
load(env, file) ==
    LET env_config == load_from_env(env)
        base == IF file.exists /\ file.json_ok THEN from_dict(file.data) ELSE AppConfig
    IN merge_env_config(base, env_config, 1)

\* an LLMClient that takes the configuration's value whatever it is given
OrConfig(supplied, configured) == configured

\* supplied or configured: None and the empty string are falsy
Or(supplied, configured) ==
    IF supplied = None \/ supplied = "" THEN configured ELSE supplied

\* provider.<field> if provider else ""
ProviderValue(provider, field) ==
    IF provider = NoResult THEN "" ELSE provider[field]

\* LLMClient.__init__: the three credentials
LLMClient(cfg, api_key, base_url, model_name) ==
    LET provider == get_active_provider(cfg.active_provider, cfg.providers)
    IN [api_key    |-> Or(api_key, ProviderValue(provider, "api_key")),
        base_url   |-> Or(base_url, ProviderValue(provider, "base_url")),
        model_name |-> Or(model_name, ProviderValue(provider, "model_name"))]

\* the environments: each variable, when set, holds a value of its own,
\* written as the variable's name; and one environment with an empty variable
Environs ==
    {[v \in EnvVars |-> IF v \in S THEN v ELSE None] :
        S \in SUBSET {"OPENAI_API_KEY", "OPENAI_BASE_URL", "DEEPSEEK_API_KEY",
                      "LLM_API_KEY", "LLM_BASE_URL", "LLM_MODEL"}}
    \cup {[v \in EnvVars |-> IF v = "OPENAI_API_KEY" THEN ""
                              ELSE IF v = "LLM_API_KEY" THEN v ELSE None]}

\* the configuration files: none, one that is not JSON, one without provider
\* data, one with keys for openai and deepseek and deepseek active, one whose
\* active provider is not configured, one with a provider of its own
ConfigFiles ==
    LET FileProvider(name) == LLMProviderConfig(name, "file-key", "file-url", "file-model")
    IN
    { NoConfigFile,
      BadConfigFile,
      ConfigFile([execution_timeout |-> 300]),
      ConfigFile([active_provider |-> "deepseek",
                  providers |-> [openai |-> FileProvider("openai"),
                                 deepseek |-> FileProvider("deepseek")]]),
      ConfigFile([active_provider |-> "ghost",
                  providers |-> [openai |-> FileProvider("openai")]]),
      ConfigFile([active_provider |-> "mine",
                  providers |-> [mine |-> FileProvider("mine")]]) }

\* ------------------------------------------------------------------- state
VARIABLES
    config,     \* the AppConfig the components read
    vcode,      \* validator specification: the code string under validation
    vresult,    \* validator specification: what validate returned, or NoResult
    op,         \* gateway: the operation in progress, "none" before a call
    pc,         \* gateway: idle, attempting, backing_off, succeeded, exhausted, sleep_raised
    attempt,    \* gateway: the loop index of _call_with_retry
    n_fail,     \* gateway: how many consecutive calls the endpoint fails
    completion, \* gateway: the text the endpoint returns once it answers
    attempts,   \* gateway: chat-completion calls made so far
    sleeps,     \* gateway: the durations slept so far, in order
    raised,     \* gateway: the errors the attempts raised, in order
    last_error, \* gateway: last_error of _call_with_retry
    propagated, \* gateway: the error _call_with_retry raised to the operation
    escaped,    \* gateway: the error the operation let escape to its caller
    ret,        \* gateway: the string the operation returned, NoResult before
    run_pc,     \* runner: idle, write, exec, returned, raised
    run_arg,    \* runner: the code string of the call in progress
    run_skip,   \* runner: skip_validation of the call in progress
    script_file,\* runner: the file at script_path, NoFile before it exists
    launches,   \* runner: subprocess.run calls made by the call in progress
    launched,   \* runner: the file content the child of this call was started on
    proc,       \* runner: what the child of this call did, NoResult without one
    run_ret,    \* runner: the triple run_code returned, NoResult before
    run_exc,    \* runner: the error run_code let escape to its caller
    ui_pc,      \* UI: idle, or the handler waiting for run_code
    creds,      \* UI: the api key and base url text boxes
    recording_file,   \* recorder: the file at output_path
    raw_code_area,    \* UI: Raw Recorded Code
    refined_code_area,\* UI: Refined Code (Editable)
    console_output,   \* UI: Console Output
    analyze_btn,      \* UI: Analyze Error is visible
    fix_btn,          \* UI: Apply Fix is visible
    analysis_output,  \* UI: Analysis
    fix_pending,\* a fix was applied and not yet run
    cycles,     \* analyze -> fix -> run cycles since the artifact was produced or last ran well
    fix_call,   \* UI: the fix_code_wrapper call of the handler that just ran, NoResult otherwise
    last_run,   \* UI: how the latest run step that returned ended, "none" before
    analyzed,   \* UI: what the latest analyze step since that run gave: no, analysis, error_text
    stale,      \* UI: a run step raised since the latest run step that returned
    rec_cmd,    \* recorder: the command line of the last session, <<>> before
    rec_how,    \* recorder: how the process of the last session ended, "none" before
    rec_ret,    \* recorder: what start_recording returned, NoResult when it did not
    rec_exc,    \* recorder: the error start_recording let escape
    session_wrote, \* recorder: what the last session wrote to output_path, NoResult when nothing
    got,        \* recorder: what get_recorded_code returned since the last session
    caller,     \* timed wait: the method waiting in subprocess.run, "none" before
    child,      \* timed wait: none, running, exited, killed
    elapsed,    \* timed wait: seconds the wait has lasted
    wait_ret,   \* timed wait: what the caller returned, NoResult while it waits
    s_path,     \* script path: the script_path of each session's runner
    s_pc,       \* script path: idle, write, exec, returned for each session
    s_arg,      \* script path: the code of each session's call
    s_launched, \* script path: the file content each session's child was started on
    files,      \* script path: the file at each path
    environ,    \* configuration: os.environ, None for a variable that is not set
    config_file,\* configuration: the file at config_path
    loaded,     \* configuration: ConfigManager._config is not None
    active_provider, \* configuration: AppConfig.active_provider
    providers,  \* configuration: AppConfig.providers
    cfg_call,   \* configuration: the set_provider or switch_provider call just made
    client      \* configuration: the client built by the call that just ran, NoResult otherwise

validate_vars == <<vcode, vresult>>
llm_vars == <<op, pc, attempt, n_fail, completion, attempts, sleeps, raised,
              last_error, propagated, escaped, ret>>
run_vars == <<run_pc, run_arg, run_skip, script_file, launches, launched, proc,
              run_ret, run_exc>>
ui_vars == <<ui_pc, creds, recording_file, raw_code_area, refined_code_area,
             console_output, analyze_btn, fix_btn, analysis_output,
             fix_pending, cycles, fix_call, last_run, analyzed, stale>>
rec_vars == <<rec_cmd, rec_how, rec_ret, rec_exc, session_wrote, got>>
wait_vars == <<caller, child, elapsed, wait_ret>>
race_vars == <<s_path, s_pc, s_arg, s_launched, files>>
cfg_vars == <<environ, config_file, loaded, active_provider, providers, cfg_call, client>>
vars == <<config, validate_vars, llm_vars, run_vars, ui_vars, rec_vars, wait_vars, race_vars,
          cfg_vars>>

\* a value handed back to the caller
Returned(v) == [value |-> v]

\* the components a specification does not exercise stay as constructed
ValidateIdle == vcode = <<>> /\ vresult = NoResult
LLMIdle ==
    /\ op = "none" /\ pc = "idle" /\ attempt = 0 /\ n_fail = 0
    /\ completion = <<>> /\ attempts = 0 /\ sleeps = <<>> /\ raised = <<>>
    /\ last_error = NoError /\ propagated = NoError /\ escaped = NoError
    /\ ret = NoResult

NoFile == [exists |-> FALSE]
\* a file the child is started on before its content is flushed
FileUnflushed(content) == [exists |-> TRUE, content |-> <<>>]
File(content) == [exists |-> TRUE, content |-> content]

RunnerIdle ==
    /\ run_pc = "idle" /\ run_arg = <<>> /\ run_skip = FALSE
    /\ script_file = NoFile /\ launches = 0 /\ launched = NoResult
    /\ proc = NoResult /\ run_ret = NoResult /\ run_exc = NoError

UIIdle ==
    /\ ui_pc = "idle" /\ creds = [api_key |-> <<"k">>, base_url |-> <<"u">>]
    /\ recording_file = NoFile
    /\ raw_code_area = <<>> /\ refined_code_area = <<>>
    /\ console_output = EmptyConsole /\ analyze_btn = FALSE /\ fix_btn = FALSE
    /\ analysis_output = <<>> /\ fix_pending = FALSE /\ cycles = 0
    /\ fix_call = NoResult /\ last_run = "none" /\ analyzed = "no" /\ stale = FALSE

RecorderIdle ==
    /\ rec_cmd = <<>> /\ rec_how = "none" /\ rec_ret = NoResult /\ rec_exc = NoError
    /\ session_wrote = NoResult /\ got = NoResult

WaitIdle == caller = "none" /\ child = "none" /\ elapsed = 0 /\ wait_ret = NoResult

RaceIdle ==
    /\ s_path = [s \in Sessions |-> "generated_bot.py"]
    /\ s_pc = [s \in Sessions |-> "idle"]
    /\ s_arg = [s \in Sessions |-> <<>>]
    /\ s_launched = [s \in Sessions |-> NoResult]
    /\ files = [q \in Paths |-> NoFile]

\* the provider configuration as app.py finds it without file or environment
ProvidersIdle ==
    /\ environ = [v \in EnvVars |-> None] /\ config_file = NoConfigFile
    /\ loaded = TRUE /\ active_provider = AppConfig.active_provider
    /\ providers = AppConfig.providers
    /\ cfg_call = NoResult /\ client = NoResult

\* ------------------------------------------- specification of the validator
InitValidate ==
    /\ ProvidersIdle
    /\ config \in {[DefaultConfig EXCEPT !.enable_code_validation = en,
                                         !.blocked_imports = bl] :
                      en \in BOOLEAN, bl \in BlockedLists}
    /\ vcode \in TextsUpTo(Chars, MaxLen)
    /\ vresult = NoResult
    /\ LLMIdle
    /\ RunnerIdle
    /\ UIIdle
    /\ RecorderIdle /\ WaitIdle /\ RaceIdle

\* one call of validate(code)
ValidateCall ==
    /\ vresult = NoResult
    /\ vresult' = Validate(vcode, config)
    /\ UNCHANGED <<config, cfg_vars, rec_vars, wait_vars, race_vars, vcode, llm_vars, run_vars, ui_vars>>

SpecValidate == InitValidate /\ [][ValidateCall]_vars

\* ----------------------------------------- specification of the LLM gateway
\* llm_max_retries and llm_retry_delay come from the configuration file
\* unchecked: zero and negative values are configurations too
InitRetry ==
    /\ ProvidersIdle
    /\ config \in {[DefaultConfig EXCEPT !.llm_max_retries = m,
                                         !.llm_retry_delay = d] :
                      m \in -1..MaxRetries, d \in -1..MaxDelay}
    /\ ValidateIdle
    /\ LLMIdle
    /\ RunnerIdle
    /\ UIIdle
    /\ RecorderIdle /\ WaitIdle /\ RaceIdle

\* the operation's except branch, or the error escaping it
Failed(o, e, state) ==
    /\ pc' = state
    /\ propagated' = e
    /\ IF Catches(e) THEN ret' = Returned(ErrorReturn(o, e)) /\ escaped' = NoError
                     ELSE ret' = NoResult /\ escaped' = e

\* the loop moves to index a: the next attempt, or the end of the loop and
\* raise last_error
LoopTo(o, a, last) ==
    /\ attempt' = a
    /\ IF InRange(a, config.llm_max_retries)
         THEN pc' = "attempting" /\ UNCHANGED <<propagated, escaped, ret>>
         ELSE Failed(o, RaiseLastError(last), "exhausted")

\* refine_code, fix_code or analyze_error calls _call_with_retry
BeginCall(o, n, c) ==
    /\ pc = "idle"
    /\ op' = o /\ n_fail' = n /\ completion' = c
    /\ last_error' = NoError
    /\ LoopTo(o, 0, NoError)
    /\ UNCHANGED <<config, cfg_vars, rec_vars, wait_vars, race_vars, validate_vars, run_vars, ui_vars, attempts, sleeps, raised>>

\* client.chat.completions.create answers: return _clean_output(content)
AttemptSucceeds ==
    /\ pc = "attempting"
    /\ attempt >= n_fail
    /\ attempts' = attempts + 1
    /\ pc' = "succeeded"
    /\ ret' = Returned(CleanOutput(completion))
    /\ UNCHANGED <<config, cfg_vars, rec_vars, wait_vars, race_vars, validate_vars, run_vars, ui_vars, op, attempt, n_fail, completion, sleeps,
                   raised, last_error, propagated, escaped>>

\* client.chat.completions.create raises e
AttemptFails(e) ==
    /\ pc = "attempting"
    /\ attempt < n_fail
    /\ attempts' = attempts + 1
    /\ raised' = Append(raised, e)
    /\ last_error' = e
    /\ IF SleepsAfter(attempt, config.llm_max_retries)
         THEN /\ pc' = "backing_off"
              /\ UNCHANGED <<attempt, propagated, escaped, ret>>
         ELSE LoopTo(op, attempt + 1, e)
    /\ UNCHANGED <<config, cfg_vars, rec_vars, wait_vars, race_vars, validate_vars, run_vars, ui_vars, op, n_fail, completion, sleeps>>

\* time.sleep(wait_time), then the next turn of the loop
Backoff ==
    /\ pc = "backing_off"
    /\ LET wait_time == WaitTime(config.llm_retry_delay, attempt) IN
       IF wait_time < 0
         THEN /\ Failed(op, ValueErrorSleep, "sleep_raised")
              /\ UNCHANGED <<attempt, sleeps>>
         ELSE /\ sleeps' = Append(sleeps, wait_time)
              /\ LoopTo(op, attempt + 1, last_error)
    /\ UNCHANGED <<config, cfg_vars, rec_vars, wait_vars, race_vars, validate_vars, run_vars, ui_vars, op, n_fail, completion, attempts, raised,
                   last_error>>

NextRetry ==
    \/ \E o \in Operations, n \in 0..(MaxRetries + 1), c \in Completions :
          BeginCall(o, n, c)
    \/ AttemptSucceeds
    \/ \E e \in ApiErrors : AttemptFails(e)
    \/ Backoff

SpecRetry == InitRetry /\ [][NextRetry]_vars

\* the calling thread runs the operation to its end
SpecRetryFair == SpecRetry /\ WF_vars(NextRetry)

\* ------------------------------------------- specification of the runner
InitRun ==
    /\ ProvidersIdle
    /\ config \in {[DefaultConfig EXCEPT !.enable_code_validation = en,
                                         !.blocked_imports = bl] :
                      en \in BOOLEAN, bl \in BlockedLists}
    /\ ValidateIdle
    /\ LLMIdle
    /\ RunnerIdle
    /\ UIIdle
    /\ RecorderIdle /\ WaitIdle /\ RaceIdle

\* run_code(code, skip_validation) up to the point where the code is saved:
\* an invalid code returns at once
RunBegin(code, skip) ==
    /\ run_pc \in {"idle", "returned", "raised"}
    /\ run_arg' = code /\ run_skip' = skip
    /\ launches' = 0 /\ launched' = NoResult /\ proc' = NoResult /\ run_exc' = NoError
    /\ LET v == Validate(code, config) IN
       IF Rejects(skip, v)
         THEN /\ run_ret' = Triple(Plain(<<>>), ValidationStderr(v.issues), FALSE)
              /\ run_pc' = "returned"
         ELSE /\ run_ret' = NoResult
              /\ run_pc' = "write"
    /\ UNCHANGED script_file

\* with open(self.script_path, "w") as f: f.write(code), outside any try
RunWrite(w) ==
    /\ run_pc = "write"
    /\ CASE w = "ok" ->
              /\ script_file' = File(run_arg)
              /\ run_pc' = "exec"
              /\ UNCHANGED run_exc
         [] w = "open_fails" ->
              /\ run_exc' = OSErrorWrite
              /\ run_pc' = "raised"
              /\ UNCHANGED script_file
         [] w = "write_fails" ->
              /\ script_file' = File(<<>>)
              /\ run_exc' = OSErrorWrite
              /\ run_pc' = "raised"
    /\ UNCHANGED <<run_arg, run_skip, launches, launched, proc, run_ret>>

\* subprocess.run(["python", self.script_path], ...) and the return
RunExec(p) ==
    /\ run_pc = "exec"
    /\ launches' = launches + 1
    /\ launched' = script_file
    /\ proc' = p
    /\ run_ret' = MapOutcome(p, config)
    /\ run_pc' = "returned"
    /\ UNCHANGED <<run_arg, run_skip, script_file, run_exc>>

NextRun ==
    \/ \E code \in RunCodes, skip \in BOOLEAN :
          /\ RunBegin(code, skip)
          \* what self.validate_code(code) handed to this call, if it was called
          /\ vcode' = code
          /\ vresult' = IF skip THEN NoResult ELSE Validate(code, config)
          /\ UNCHANGED <<config, cfg_vars, rec_vars, wait_vars, race_vars, llm_vars, ui_vars>>
    \/ \E w \in WriteOutcomes :
          RunWrite(w) /\ UNCHANGED <<config, cfg_vars, rec_vars, wait_vars, race_vars, validate_vars, llm_vars, ui_vars>>
    \/ \E p \in ProcOutcomes :
          RunExec(p) /\ UNCHANGED <<config, cfg_vars, rec_vars, wait_vars, race_vars, validate_vars, llm_vars, ui_vars>>

SpecRun == InitRun /\ [][NextRun]_vars

\* ------------------------------------------ specification of the UI pipeline
\* what a session writes to output_path; NoResult when it writes nothing
RecordedCodes == { <<"x">> }

Init ==
    /\ ProvidersIdle
    /\ config \in {[DefaultConfig EXCEPT !.enable_code_validation = en] : en \in BOOLEAN}
    /\ ValidateIdle
    /\ LLMIdle
    /\ RunnerIdle
    /\ ui_pc = "idle" /\ creds \in Credentials
    /\ recording_file = NoFile
    /\ raw_code_area = <<>> /\ refined_code_area = <<>>
    /\ console_output = EmptyConsole /\ analyze_btn = FALSE /\ fix_btn = FALSE
    /\ analysis_output = <<>> /\ fix_pending = FALSE /\ cycles = 0
    /\ fix_call = NoResult /\ last_run = "none" /\ analyzed = "no" /\ stale = FALSE
    /\ RecorderIdle /\ WaitIdle /\ RaceIdle

\* a run step has ended: a fix that was applied has now been run
AfterRun(success) ==
    /\ fix_pending' = FALSE
    /\ cycles' = IF success THEN 0 ELSE IF fix_pending THEN cycles + 1 ELSE cycles

\* run_script_wrapper returned its three outputs: the run step ended as kind
RunEnded(kind) ==
    /\ last_run' = kind /\ analyzed' = "no" /\ stale' = FALSE

\* the second output of run_script_wrapper after run_code: Analyze Error is
\* shown whatever the run gave
ShowAnalyzeAlways(success) == TRUE

\* the second output of run_script_wrapper after run_code
ShowAnalyze(success) == ~success

\* record_btn.click: run_recorder_wrapper (mock_mode is a hidden, unchecked box)
RecordClick(r, w) ==
    /\ ui_pc = "idle"
    /\ SessionWrites(r, w)
    /\ recording_file' = IF w = NoResult THEN recording_file ELSE File(w.value)
    /\ raw_code_area' =
         IF r = "ok" THEN GetRecordedCode(recording_file')
         ELSE IF r = "oserror" THEN raw_code_area
         ELSE RecFailed
    /\ UNCHANGED <<config, cfg_vars, rec_vars, wait_vars, race_vars, validate_vars, llm_vars, run_vars, ui_pc, creds,
                   refined_code_area, console_output, analyze_btn, fix_btn,
                   analysis_output, fix_pending, cycles, last_run, analyzed, stale>>
    /\ fix_call' = NoResult

\* refine_btn.click: refine_code_wrapper
RefineClick(ctor_ok, g) ==
    /\ ui_pc = "idle"
    /\ refined_code_area' =
         IF creds.api_key = <<>> THEN ErrWrapPrefix \o NeedKeyMsg
         ELSE IF creds.base_url = <<>> THEN ErrWrapPrefix \o NeedUrlMsg
         ELSE IF ~ctor_ok THEN ErrWrapPrefix \o CtorError.msg
         ELSE g
    /\ fix_pending' = FALSE /\ cycles' = 0
    /\ fix_call' = NoResult /\ UNCHANGED <<last_run, analyzed, stale>>
    /\ UNCHANGED <<config, cfg_vars, rec_vars, wait_vars, race_vars, validate_vars, llm_vars, run_vars, ui_pc, creds,
                   recording_file, raw_code_area, console_output, analyze_btn,
                   fix_btn, analysis_output>>

\* the operator edits the refined code
UserEdit(code) ==
    /\ ui_pc = "idle"
    /\ refined_code_area' = code
    /\ UNCHANGED <<config, cfg_vars, rec_vars, wait_vars, race_vars, validate_vars, llm_vars, run_vars, ui_pc, creds,
                   recording_file, raw_code_area, console_output, analyze_btn,
                   fix_btn, analysis_output, fix_pending, cycles, last_run, analyzed, stale>>
    /\ fix_call' = NoResult

\* run_btn.click: run_script_wrapper up to its call of runner.run_code
RunClick ==
    /\ ui_pc = "idle"
    /\ LET code == refined_code_area
           v == Validate(code, config) IN
       IF Refuses(code)
         THEN /\ console_output' = NoValidCode
              /\ analyze_btn' = FALSE /\ fix_btn' = FALSE
              /\ AfterRun(FALSE)
              /\ RunEnded("refused")
              /\ UNCHANGED <<run_vars, ui_pc>>
       ELSE IF ~v.is_valid
         THEN /\ console_output' = ValidationFailed(v.issues)
              /\ analyze_btn' = TRUE /\ fix_btn' = FALSE
              /\ AfterRun(FALSE)
              /\ RunEnded("rejected")
              /\ UNCHANGED <<run_vars, ui_pc>>
       ELSE /\ RunBegin(code, FALSE)
            /\ ui_pc' = "run_script_wrapper"
            /\ UNCHANGED <<console_output, analyze_btn, fix_btn, fix_pending, cycles,
                           last_run, analyzed, stale>>
    /\ fix_call' = NoResult
    /\ UNCHANGED <<config, cfg_vars, rec_vars, wait_vars, race_vars, validate_vars, llm_vars, creds, recording_file,
                   raw_code_area, refined_code_area, analysis_output>>

\* run_code writes the script file
RunWriteStep(w) ==
    /\ ui_pc = "run_script_wrapper"
    /\ RunWrite(w)
    /\ UNCHANGED <<config, cfg_vars, rec_vars, wait_vars, race_vars, validate_vars, llm_vars, ui_vars>>

\* run_code starts the child on the script file and waits for it
RunExecStep(p) ==
    /\ ui_pc = "run_script_wrapper"
    /\ RunExec(p)
    /\ UNCHANGED <<config, cfg_vars, rec_vars, wait_vars, race_vars, validate_vars, llm_vars, ui_vars>>

\* the handler is over: what run_code kept of the call is gone, the script
\* file stays
CallOver ==
    /\ run_pc' = "idle" /\ run_arg' = <<>> /\ run_skip' = FALSE
    /\ launches' = 0 /\ launched' = NoResult /\ proc' = NoResult
    /\ run_ret' = NoResult /\ run_exc' = NoError
    /\ UNCHANGED script_file

\* run_script_wrapper after run_code returned its triple
RunReturn ==
    /\ ui_pc = "run_script_wrapper"
    /\ run_pc = "returned"
    /\ console_output' = RunOutput(run_ret)
    /\ analyze_btn' = ShowAnalyze(run_ret.success) /\ fix_btn' = FALSE
    /\ AfterRun(run_ret.success)
    /\ RunEnded(IF run_ret.success THEN "ok" ELSE "failed")
    /\ fix_call' = NoResult
    /\ ui_pc' = "idle"
    /\ CallOver
    /\ UNCHANGED <<config, cfg_vars, rec_vars, wait_vars, race_vars, validate_vars, llm_vars, creds, recording_file,
                   raw_code_area, refined_code_area, analysis_output>>

\* run_code raised: run_script_wrapper has no handler, its outputs stay
RunRaised ==
    /\ ui_pc = "run_script_wrapper"
    /\ run_pc = "raised"
    /\ AfterRun(FALSE)
    /\ stale' = TRUE /\ fix_call' = NoResult /\ UNCHANGED <<last_run, analyzed>>
    /\ ui_pc' = "idle"
    /\ CallOver
    /\ UNCHANGED <<config, cfg_vars, rec_vars, wait_vars, race_vars, validate_vars, llm_vars, creds, recording_file,
                   raw_code_area, refined_code_area, console_output, analyze_btn,
                   fix_btn, analysis_output>>

\* analyze_btn.click: analyze_error_wrapper
AnalyzeClick(ctor_ok, g) ==
    /\ ui_pc = "idle"
    /\ analyze_btn
    /\ IF creds.api_key = <<>>
         THEN analysis_output' = MissingKeyMsg /\ fix_btn' = FALSE /\ analyzed' = "no"
       ELSE IF ~ctor_ok
         THEN /\ analysis_output' = ErrPlainPrefix \o CtorError.msg /\ fix_btn' = FALSE
              /\ analyzed' = "no"
       ELSE /\ analysis_output' = g /\ fix_btn' = TRUE
            /\ analyzed' = IF StartsWith(g, ErrAnalyzePrefix) THEN "error_text" ELSE "analysis"
    /\ fix_call' = NoResult
    /\ UNCHANGED <<config, cfg_vars, rec_vars, wait_vars, race_vars, validate_vars, llm_vars, run_vars, ui_pc, creds,
                   recording_file, raw_code_area, refined_code_area, console_output,
                   analyze_btn, fix_pending, cycles, last_run, stale>>

\* fix_btn.click: fix_code_wrapper
FixClick(ctor_ok, g) ==
    /\ ui_pc = "idle"
    /\ fix_btn
    /\ cycles < MaxCycles
    /\ refined_code_area' = IF ~ctor_ok THEN ErrWrapPrefix \o CtorError.msg ELSE g
    /\ fix_pending' = TRUE
    \* the code handed in, whether llm.fix_code was reached, whether the fix failed
    /\ fix_call' = [code |-> refined_code_area, sent |-> ctor_ok,
                    failed |-> ~ctor_ok \/ StartsWith(g, ErrLLMPrefix)]
    /\ UNCHANGED <<config, cfg_vars, rec_vars, wait_vars, race_vars, validate_vars, llm_vars, run_vars, ui_pc, creds,
                   recording_file, raw_code_area, console_output, analyze_btn,
                   fix_btn, analysis_output, cycles, last_run, analyzed, stale>>

Next ==
    \/ \E r \in RecorderOutcomes, w \in {NoResult} \cup {Returned(c) : c \in RecordedCodes} :
          RecordClick(r, w)
    \/ \E ok \in BOOLEAN, g \in GatewayReturns("refine_code") : RefineClick(ok, g)
    \/ \E code \in EditedCodes : UserEdit(code)
    \/ RunClick
    \/ \E w \in PipelineWrites : RunWriteStep(w)
    \/ \E p \in PipelineProcs : RunExecStep(p)
    \/ RunReturn
    \/ RunRaised
    \/ \E ok \in BOOLEAN, g \in GatewayReturns("analyze_error") : AnalyzeClick(ok, g)
    \/ \E ok \in BOOLEAN, g \in GatewayReturns("fix_code") : FixClick(ok, g)

Spec == Init /\ [][Next]_vars

\* ------------------------------------------ specification of the recorder
\* output_path is a fixed name in the temp directory: a file an earlier run
\* of the program left there is still there
InitRecorder ==
    /\ ProvidersIdle
    /\ config = DefaultConfig
    /\ ValidateIdle
    /\ LLMIdle
    /\ RunnerIdle
    /\ ui_pc = "idle" /\ creds = [api_key |-> <<"k">>, base_url |-> <<"u">>]
    /\ recording_file \in {NoFile} \cup {File(c) : c \in SessionCodes}
    /\ raw_code_area = <<>> /\ refined_code_area = <<>>
    /\ console_output = EmptyConsole /\ analyze_btn = FALSE /\ fix_btn = FALSE
    /\ analysis_output = <<>> /\ fix_pending = FALSE /\ cycles = 0
    /\ fix_call = NoResult /\ last_run = "none" /\ analyzed = "no" /\ stale = FALSE
    /\ RecorderIdle /\ WaitIdle /\ RaceIdle

\* how start_recording ends when the session ended as r: True, False from
\* one of the except clauses, or the error no clause catches
StartRecordingEnds(r) ==
    LET e == RecorderRaises(r) IN
    IF r = "ok" THEN [ret |-> Returned(TRUE), exc |-> NoError]
    ELSE IF RecorderCatches(e) THEN [ret |-> Returned(FALSE), exc |-> NoError]
    ELSE [ret |-> NoResult, exc |-> e]

\* Recorder.start_recording(url): the session ends as r and has written w
\* to output_path (NoResult: nothing; the file is left as it was)
StartRecording(url, r, w) ==
    /\ SessionWrites(r, w)
    /\ rec_cmd' = RecorderCmd(url)
    /\ rec_how' = r
    /\ recording_file' = IF w = NoResult THEN recording_file ELSE File(w.value)
    /\ session_wrote' = w
    /\ got' = NoResult
    /\ rec_ret' = StartRecordingEnds(r).ret
    /\ rec_exc' = StartRecordingEnds(r).exc
    /\ UNCHANGED <<config, cfg_vars, validate_vars, llm_vars, run_vars, wait_vars, race_vars,
                   ui_pc, creds, raw_code_area, refined_code_area, console_output,
                   analyze_btn, fix_btn, analysis_output, fix_pending, cycles,
                   fix_call, last_run, analyzed, stale>>

\* Recorder.get_recorded_code()
GetRecordedCodeCall ==
    /\ got' = Returned(GetRecordedCode(recording_file))
    /\ UNCHANGED <<config, cfg_vars, validate_vars, llm_vars, run_vars, ui_vars, wait_vars,
                   race_vars, rec_cmd, rec_how, rec_ret, rec_exc, session_wrote>>

NextRecorder ==
    \/ \E url \in Urls, r \in RecorderOutcomes,
          w \in {NoResult} \cup {Returned(c) : c \in SessionCodes} :
          StartRecording(url, r, w)
    \/ GetRecordedCodeCall

SpecRecorder == InitRecorder /\ [][NextRecorder]_vars

\* ---------------------------------------- specification of the timed wait
\* execution_timeout and recording_timeout come from the configuration file
InitWait ==
    /\ ProvidersIdle
    /\ config \in {[DefaultConfig EXCEPT !.execution_timeout = t,
                                         !.recording_timeout = u] :
                      t \in 0..MaxTimeout, u \in 0..MaxTimeout}
    /\ ValidateIdle
    /\ LLMIdle
    /\ RunnerIdle
    /\ UIIdle
    /\ RecorderIdle /\ WaitIdle /\ RaceIdle

\* what caller c hands back when the wait ends as kind ("exit" with status
\* rc, or "timeout")
CallerReturns(c, kind, rc) ==
    IF c = "run_code"
      THEN MapOutcome([kind |-> kind, returncode |-> rc, stdout |-> <<>>,
                       stderr |-> <<>>, msg |-> <<>>], config)
      ELSE StartRecordingEnds(IF kind = "timeout" THEN "timeout"
                              ELSE IF rc = 0 THEN "ok" ELSE "nonzero").ret

\* run_code or start_recording calls subprocess.run: the child is started
Launch(c) ==
    /\ child # "running"
    /\ caller' = c /\ child' = "running" /\ elapsed' = 0 /\ wait_ret' = NoResult
    /\ UNCHANGED <<config, cfg_vars, validate_vars, llm_vars, run_vars, ui_vars, rec_vars, race_vars>>

\* a second of the wait passes
Tick ==
    /\ child = "running"
    /\ ~TimedOut(elapsed, TimeoutOf(caller, config))
    /\ elapsed <= MaxTimeout
    /\ elapsed' = elapsed + 1
    /\ UNCHANGED <<config, cfg_vars, validate_vars, llm_vars, run_vars, ui_vars, rec_vars, race_vars,
                   caller, child, wait_ret>>

\* the child exits with status rc before it is killed
ChildExits(rc) ==
    /\ child = "running"
    /\ child' = "exited"
    /\ wait_ret' = CallerReturns(caller, "exit", rc)
    /\ UNCHANGED <<config, cfg_vars, validate_vars, llm_vars, run_vars, ui_vars, rec_vars, race_vars,
                   caller, elapsed>>

\* the timeout elapses: subprocess.run kills the child, reaps it and raises
\* TimeoutExpired, which both callers catch
TimeoutKill ==
    /\ child = "running"
    /\ TimedOut(elapsed, TimeoutOf(caller, config))
    /\ child' = "killed"
    /\ wait_ret' = CallerReturns(caller, "timeout", 0)
    /\ UNCHANGED <<config, cfg_vars, validate_vars, llm_vars, run_vars, ui_vars, rec_vars, race_vars,
                   caller, elapsed>>

NextWait ==
    \/ \E c \in Callers : Launch(c)
    \/ Tick
    \/ \E rc \in ExitCodes : ChildExits(rc)
    \/ TimeoutKill

\* the clock runs and the waiting thread runs; whether the child ever exits
\* by itself is up to the child
SpecWait == InitWait /\ [][NextWait]_vars /\ WF_vars(Tick) /\ WF_vars(TimeoutKill)

\* ------------------------------- specification of two sessions and the path
\* the first session uses the module-global runner, the second that runner
\* too or a runner with a path of its own
InitRace ==
    /\ ProvidersIdle
    /\ config \in {[DefaultConfig EXCEPT !.enable_code_validation = en] : en \in BOOLEAN}
    /\ ValidateIdle
    /\ LLMIdle
    /\ RunnerIdle
    /\ UIIdle
    /\ RecorderIdle /\ WaitIdle
    /\ s_path \in {f \in [Sessions -> Paths] : f[1] = "generated_bot.py"}
    /\ s_pc = [s \in Sessions |-> "idle"]
    /\ s_arg = [s \in Sessions |-> <<>>]
    /\ s_launched = [s \in Sessions |-> NoResult]
    /\ files = [q \in Paths |-> NoFile]

\* session s calls run_code(code): validation, and the early return
SessionBegin(s, code) ==
    /\ s_pc[s] \in {"idle", "returned"}
    /\ s_arg' = [s_arg EXCEPT ![s] = code]
    /\ s_launched' = [s_launched EXCEPT ![s] = NoResult]
    /\ s_pc' = [s_pc EXCEPT ![s] =
                  IF Rejects(FALSE, Validate(code, config)) THEN "returned" ELSE "write"]
    /\ UNCHANGED <<config, cfg_vars, validate_vars, llm_vars, run_vars, ui_vars, rec_vars, wait_vars,
                   s_path, files>>

\* session s saves its code at its script path
SessionWrite(s) ==
    /\ s_pc[s] = "write"
    /\ files' = WritePath(files, s_path[s], s_arg[s])
    /\ s_pc' = [s_pc EXCEPT ![s] = "exec"]
    /\ UNCHANGED <<config, cfg_vars, validate_vars, llm_vars, run_vars, ui_vars, rec_vars, wait_vars,
                   s_path, s_arg, s_launched>>

\* session s starts python on its script path: the child reads what the
\* file holds now
SessionExec(s) ==
    /\ s_pc[s] = "exec"
    /\ s_launched' = [s_launched EXCEPT ![s] = files[s_path[s]]]
    /\ s_pc' = [s_pc EXCEPT ![s] = "returned"]
    /\ UNCHANGED <<config, cfg_vars, validate_vars, llm_vars, run_vars, ui_vars, rec_vars, wait_vars,
                   s_path, s_arg, files>>

NextRace ==
    \/ \E s \in Sessions, code \in RaceCodes : SessionBegin(s, code)
    \/ \E s \in Sessions : SessionWrite(s)
    \/ \E s \in Sessions : SessionExec(s)

SpecRace == InitRace /\ [][NextRace]_vars

\* ------------------------------------ specification of the provider settings
\* AppConfig() and the calls the settings handlers make on it: set_provider
\* with a default provider or a new one, switch_provider with those and
\* with a name that is never configured
InitConfig ==
    /\ config = DefaultConfig
    /\ ValidateIdle /\ LLMIdle /\ RunnerIdle /\ UIIdle
    /\ RecorderIdle /\ WaitIdle /\ RaceIdle
    /\ environ = [v \in EnvVars |-> None] /\ config_file = NoConfigFile
    /\ loaded = TRUE
    /\ active_provider = AppConfig.active_provider
    /\ providers = AppConfig.providers
    /\ cfg_call = NoResult /\ client = NoResult

SetProvider(name, api_key, base_url, model_name) ==
    /\ loaded
    /\ providers' = set_provider(providers, name, api_key, base_url, model_name)
    /\ cfg_call' = [fn |-> "set_provider", name |-> name]
    /\ UNCHANGED <<config, validate_vars, llm_vars, run_vars, ui_vars, rec_vars, wait_vars,
                   race_vars, environ, config_file, loaded, active_provider, client>>

SwitchProvider(name) ==
    /\ loaded
    /\ IF Configured(name, providers)
         THEN /\ active_provider' = name
              /\ cfg_call' = [fn |-> "switch_provider", name |-> name, ret |-> TRUE]
         ELSE /\ active_provider' = active_provider
              /\ cfg_call' = [fn |-> "switch_provider", name |-> name, ret |-> FALSE]
    /\ client' = NoResult
    /\ UNCHANGED <<config, validate_vars, llm_vars, run_vars, ui_vars, rec_vars, wait_vars,
                   race_vars, environ, config_file, loaded, providers>>

NextConfig ==
    \/ \E name \in {"openai", "mine"}, k \in {None, "", "sk-new"},
          u \in {None, "http://new"}, m \in {None, "new-model"} :
          SetProvider(name, k, u, m)
    \/ \E name \in {"openai", "custom", "mine", "ghost"} : SwitchProvider(name)

SpecConfig == InitConfig /\ [][NextConfig]_vars

\* --------------------------- specification of loading and of the credentials
\* the process starts with an environment and a file; nothing is loaded
InitLoad ==
    /\ config = DefaultConfig
    /\ ValidateIdle /\ LLMIdle /\ RunnerIdle /\ UIIdle
    /\ RecorderIdle /\ WaitIdle /\ RaceIdle
    /\ environ \in Environs
    /\ config_file \in ConfigFiles
    /\ loaded = FALSE
    /\ active_provider = None
    /\ providers = [n \in {} |-> NoResult]
    /\ cfg_call = NoResult /\ client = NoResult

\* ConfigManager.load, when nothing is loaded yet
Load ==
    /\ ~loaded
    /\ LET cfg == load(environ, config_file) IN
         /\ active_provider' = cfg.active_provider
         /\ providers' = cfg.providers
    /\ loaded' = TRUE
    /\ UNCHANGED <<config, validate_vars, llm_vars, run_vars, ui_vars, rec_vars, wait_vars,
                   race_vars, environ, config_file, cfg_call, client>>

\* LLMClient(api_key, base_url, model_name): get_config() loads the
\* configuration when nothing is loaded, then the credentials are resolved
NewClient(api_key, base_url, model_name) ==
    /\ LET cfg == IF loaded
                  THEN [active_provider |-> active_provider, providers |-> providers]
                  ELSE load(environ, config_file)
       IN /\ active_provider' = cfg.active_provider
          /\ providers' = cfg.providers
          /\ client' = [args |-> [api_key |-> api_key, base_url |-> base_url,
                                  model_name |-> model_name],
                        made |-> LLMClient(cfg, api_key, base_url, model_name)]
    /\ loaded' = TRUE
    /\ UNCHANGED <<config, validate_vars, llm_vars, run_vars, ui_vars, rec_vars, wait_vars,
                   race_vars, environ, config_file, cfg_call>>

NextLoad ==
    \/ Load
    \/ \E k \in {None, "arg-key"}, u \in {None, "", "arg-url"}, m \in {None, "arg-model"} :
          NewClient(k, u, m)
    \/ \E name \in {"openai", "deepseek", "ghost"} : SwitchProvider(name)

SpecLoad == InitLoad /\ [][NextLoad]_vars

\* ------------------------------------------------- properties of the gateway
Terminal == pc \in {"succeeded", "exhausted", "sleep_raised"}

\* a RetryPolicy: an attempt count and a duration
PolicyOK == config.llm_max_retries >= 0 /\ config.llm_retry_delay >= 0

C1_Outcome ==
    (PolicyOK /\ Terminal) =>
        IF n_fail < config.llm_max_retries
          THEN pc = "succeeded" /\ attempts = n_fail + 1
          ELSE /\ pc = "exhausted"
               /\ attempts = config.llm_max_retries
               /\ Len(sleeps) = (IF attempts = 0 THEN 0 ELSE attempts - 1)

C1_Final == (pc \in {"succeeded", "exhausted"}) => (attempts' = attempts /\ sleeps' = sleeps)

\* C1: with N forced consecutive failures and max_attempts = M (a RetryPolicy:
\* M >= 0, delay >= 0), a started call ends succeeded after exactly N+1 attempts
\* when N < M, and ends exhausted after exactly M attempts when N >= M; the
\* last attempt is followed by no suspension, and nothing is attempted or
\* slept once the call has succeeded or is exhausted.
C1_RetryContract ==
    /\ [] C1_Outcome
    /\ [][C1_Final]_vars
    /\ ((pc # "idle" /\ PolicyOK /\ n_fail < config.llm_max_retries) ~> (pc = "succeeded"))
    /\ ((pc # "idle" /\ PolicyOK /\ n_fail >= config.llm_max_retries) ~> (pc = "exhausted"))

C1_Witness ==
    /\ pc = "exhausted" /\ config.llm_max_retries = 3 /\ config.llm_retry_delay = 1
    /\ n_fail = 4 /\ attempts = 3 /\ Len(sleeps) = 2

SmallerOf(a, b) == IF a < b THEN a ELSE b

\* C2: for a RetryPolicy with max_attempts >= 1 and delay >= 0, the k-th
\* suspension of a call lasts base_delay * 2^(k-1), attempt k+1 starts only
\* after k suspensions, and a finished call with N forced failures has slept
\* min(N, max_attempts - 1) times.
C2_BackoffSchedule ==
    (config.llm_max_retries >= 1 /\ config.llm_retry_delay >= 0) =>
        /\ \A k \in 1..Len(sleeps) : sleeps[k] = config.llm_retry_delay * (2 ^ (k - 1))
        /\ (pc = "attempting" => Len(sleeps) = attempts)
        /\ (Terminal => Len(sleeps) = SmallerOf(n_fail, config.llm_max_retries - 1))

C2_Witness ==
    /\ pc = "succeeded" /\ config.llm_max_retries = 4 /\ config.llm_retry_delay = 2
    /\ n_fail = 3 /\ sleeps = <<2, 4, 8>>

\* C8: under every configuration of llm_max_retries and llm_retry_delay (zero
\* and negative ones too) and every pattern of failures, an operation that has
\* ended let no error escape and returned a string; when the retrying call
\* did not succeed, refine_code and fix_code returned a string that begins
\* with "# Error calling LLM: " and analyze_error one that begins with
\* "Error analyzing code: ".
C8_NeverRaises ==
    Terminal =>
        /\ escaped = NoError
        /\ ret # NoResult
        /\ (pc # "succeeded" =>
               IF op = "analyze_error"
                 THEN StartsWith(ret.value, ErrAnalyzePrefix)
                 ELSE StartsWith(ret.value, ErrLLMPrefix))

C8_Witness ==
    /\ pc = "sleep_raised" /\ op = "analyze_error"
    /\ ret = Returned(ErrAnalyzePrefix \o ValueErrorMsg)

\* C9 (as claimed): the error _call_with_retry raises to its caller is the
\* error raised by the last attempt made, for every configured
\* llm_max_retries and llm_retry_delay.
C9_LastErrorPropagated ==
    propagated # NoError => (raised # <<>> /\ propagated = raised[Len(raised)])

\* the transitions of the four-state machine, and the start of a call
C24_Transition ==
    pc' # pc =>
        \/ pc = "idle" /\ pc' = "attempting"
        \/ pc = "attempting" /\ pc' = "succeeded"
        \/ pc = "attempting" /\ pc' = "backing_off" /\ attempts' < config.llm_max_retries
        \/ pc = "attempting" /\ pc' = "exhausted" /\ attempts' = config.llm_max_retries
        \/ pc = "backing_off" /\ pc' = "attempting"

\* C24 (as claimed): for every policy with max_attempts >= 1 and every
\* base_delay (zero and negative too), _call_with_retry moves only along
\* attempting -> succeeded, attempting -> backing-off (attempts made <
\* max_attempts), attempting -> exhausted (attempts made = max_attempts) and
\* backing-off -> attempting, and never makes more than max_attempts attempts.
C24_FourStateMachine ==
    /\ [][config.llm_max_retries >= 1 => C24_Transition]_vars
    /\ [](config.llm_max_retries >= 1 =>
             /\ attempts <= config.llm_max_retries
             /\ pc \in {"idle", "attempting", "backing_off", "succeeded", "exhausted"})

\* the code between the first line and the last of a completion of the form
\* fence-python, newline, code, newline, fence
FencedPayload(text) == SubSeq(text, Len(FencePython) + 2, Len(text) - Len(Fence) - 1)

IsFencedPython(text) ==
    /\ Len(text) >= Len(FencePython) + Len(Fence) + 2
    /\ SubSeq(text, 1, Len(FencePython) + 1) = FencePython \o <<"\n">>
    /\ SubSeq(text, Len(text) - Len(Fence), Len(text)) = <<"\n">> \o Fence

\* C15 (as claimed): whatever completion the endpoint returns, the string
\* refine_code and fix_code return on success neither begins nor ends with
\* the fence marker, and a completion of the form fence-python, newline,
\* code, newline, fence is returned as exactly code.
C15_FenceFree ==
    (pc = "succeeded" /\ op \in {"refine_code", "fix_code"}) =>
        /\ ret # NoResult
        /\ ~StartsWith(ret.value, Fence)
        /\ ~EndsWith(ret.value, Fence)
        /\ (IsFencedPython(completion) => ret.value = FencedPayload(completion))

\* ----------------------------------------------- properties of the validator
\* pattern b occurs somewhere in text s
Occurs(s, b) == \E i \in 1..(Len(s) + 1) : \E j \in (i - 1)..Len(s) : SubSeq(s, i, j) = b

NamesPattern(issues, b) ==
    \E k \in 1..Len(issues) : "blocked" \in DOMAIN issues[k] /\ issues[k].blocked = b

DenyList == {config.blocked_imports[k] : k \in 1..Len(config.blocked_imports)}

C10_Decision ==
    vresult # NoResult =>
        /\ \A b \in DenyList :
              Occurs(vcode, b) => (~vresult.is_valid /\ NamesPattern(vresult.issues, b))
        /\ ((\A b \in DenyList : ~Occurs(vcode, b)) /\ compile(vcode).ok)
              => vresult.is_valid

\* C10 (as claimed): every code string that contains a deny-listed string is
\* invalid with an issue naming the pattern, and every code string free of
\* them that parses is valid, whatever the configuration.
C10_Original == C10_Decision

\* C10 (amended): with validation enabled, every code string that contains a
\* deny-listed string anywhere is invalid with an issue naming the pattern,
\* and every code string free of them that parses is valid.
C10_WhenEnabled == config.enable_code_validation => C10_Decision

\* the pattern "ex" inside a comment
C10_Witness ==
    /\ config.enable_code_validation /\ config.blocked_imports = BlockedDefault
    /\ vcode = <<"#", "e", "x">>
    /\ vresult # NoResult /\ ~vresult.is_valid
    /\ vresult.issues = <<BlockedIssue(<<"e", "x">>)>>

\* C12: with validation enabled, every code string that does not parse is
\* invalid, and its issue list holds an entry that carries the line number of
\* the failure and the parser's message.
C12_SyntaxIssueReported ==
    (config.enable_code_validation /\ vresult # NoResult /\ ~compile(vcode).ok) =>
        /\ ~vresult.is_valid
        /\ \E k \in 1..Len(vresult.issues) :
              /\ "lineno" \in DOMAIN vresult.issues[k]
              /\ vresult.issues[k].lineno = compile(vcode).lineno
              /\ vresult.issues[k].lineno = ScanOpen(vcode, 1, 1, FALSE, 0)
              /\ vresult.issues[k].msg = compile(vcode).msg

\* a bracket left open on the second line, and no deny-listed string
C12_Witness ==
    /\ config.enable_code_validation /\ config.blocked_imports = BlockedDefault
    /\ vcode = <<"x", "\n", "(">>
    /\ vresult # NoResult /\ ~vresult.is_valid
    /\ vresult.issues = <<SyntaxIssue([ok |-> FALSE, lineno |-> 2, msg |-> "'(' was never closed"])>>

\* C13: in every result validate returns, is_valid is true exactly when the
\* issue list is empty.
C13_ValidIffNoIssues ==
    vresult # NoResult => (vresult.is_valid <=> vresult.issues = <<>>)

\* two deny-listed strings and an open bracket: three issues, invalid
C13_Witness ==
    /\ config.enable_code_validation /\ config.blocked_imports = BlockedDefault
    /\ vcode = <<"e", "x", "(">>
    /\ vresult # NoResult /\ ~vresult.is_valid /\ Len(vresult.issues) = 3

\* ------------------------------------------------ properties of the recorder
\* C16 (as claimed): start_recording returns true exactly when the process
\* exited with status zero within the timeout, and for every other ending of
\* the session (timeout, non-zero exit, binary not found, any other failure
\* to start the process) it returns false and lets no error escape.
C16_BooleanForEveryEnding ==
    rec_how # "none" =>
        /\ rec_exc = NoError
        /\ rec_ret = Returned(rec_how = "ok")

\* what the most recent session produced: its code, or the empty string
LatestRecording == IF session_wrote = NoResult THEN <<>> ELSE session_wrote.value

\* C17 (as claimed): after any sequence of start_recording calls,
\* get_recorded_code returns what the most recent session produced and never
\* the code of an earlier one; a session that wrote nothing yields "".
C17_OnlyLatestSession ==
    (rec_how # "none" /\ got # NoResult) => got.value = LatestRecording

\* C18: get_recorded_code returns the whole content of the file at
\* output_path when the file exists and the empty string when it does not,
\* and a call of it leaves the file as it was.
C18_ReadsWithoutChanging ==
    /\ [](got # NoResult =>
             got.value = (IF recording_file.exists THEN recording_file.content ELSE <<>>))
    /\ [][got' # NoResult => recording_file' = recording_file]_vars

\* the file of a session is read, and is still there
C18_Witness ==
    /\ rec_how = "ok" /\ session_wrote = Returned(<<"x">>)
    /\ got = Returned(<<"x">>) /\ recording_file = File(<<"x">>)

\* --------------------------------------------- properties of the timed wait
\* the failure result of each caller
FailureResult(c, r) ==
    IF c = "run_code" THEN r.success = FALSE /\ r.stdout = Plain(<<>>)
    ELSE r = Returned(FALSE)

\* C19: a run_code or start_recording call that waits on its child returns:
\* the wait never lasts longer than the configured timeout, a child still
\* running when the timeout has elapsed is killed and the call returns its
\* failure result, and a child that exits earlier ends the wait at once.
C19_WaitIsBounded ==
    /\ [](child = "running" => elapsed <= TimeoutOf(caller, config))
    /\ [](child = "killed" =>
             /\ elapsed = TimeoutOf(caller, config)
             /\ wait_ret # NoResult /\ FailureResult(caller, wait_ret))
    /\ [](wait_ret # NoResult <=> child \in {"exited", "killed"})
    /\ ((child = "running") ~> (wait_ret # NoResult))

\* a script that never exits is killed after the three seconds configured
C19_Witness ==
    /\ caller = "run_code" /\ config.execution_timeout = 3
    /\ child = "killed" /\ elapsed = 3
    /\ wait_ret = Triple(Plain(<<>>), TimeoutStderr(config), FALSE)

\* the deny-list strings that occur in the code, in the order of the list
C26_Hits == SelectSeq(config.blocked_imports, LAMBDA b : Occurs(vcode, b))

\* C26: with validation enabled, the issue list is one entry for each string
\* of the deny list that occurs in the code (one entry however often it
\* occurs), in the order of the list, followed by the syntax-error entry when
\* the code does not parse, whether or not the deny list matched.
C26_IssueListStructure ==
    (config.enable_code_validation /\ vresult # NoResult) =>
        vresult.issues =
            [k \in 1..Len(C26_Hits) |-> BlockedIssue(C26_Hits[k])]
            \o (IF compile(vcode).ok THEN <<>> ELSE <<SyntaxIssue(compile(vcode))>>)

\* "x(" occurs twice and the last bracket stays open: two entries
C26_Witness ==
    /\ config.enable_code_validation /\ config.blocked_imports = BlockedDefault
    /\ vcode = <<"x", "(", "x", "(">>
    /\ vresult # NoResult /\ Len(vresult.issues) = 2
    /\ vresult.issues[1] = BlockedIssue(<<"x", "(">>)
    /\ "lineno" \in DOMAIN vresult.issues[2]

\* -------------------------------------------------- properties of the runner
\* the code is invalid for the validator under the configuration in force
Invalid(code) ==
    /\ config.enable_code_validation
    /\ \/ \E k \in 1..Len(config.blocked_imports) : Occurs(code, config.blocked_imports[k])
       \/ ~compile(code).ok

\* C3: a run_code call with skip_validation false on a code the validator
\* finds invalid has returned ("", "Validation failed:" and the issues, false)
\* and has started no subprocess, whatever the code and the configuration.
C3_NoLaunchWhenInvalid ==
    (run_pc # "idle" /\ ~run_skip /\ Invalid(run_arg)) =>
        /\ launches = 0
        /\ run_pc = "returned"
        /\ run_ret = Triple(Plain(<<>>),
                            ValidationStderr(Validate(run_arg, config).issues), FALSE)
        /\ Len(run_ret.stderr.issues_text) >= 1

\* deny-listed code, after an earlier call was executed
C3_Witness ==
    /\ run_pc = "returned" /\ ~run_skip /\ run_arg = <<"#", "e", "x">>
    /\ config.blocked_imports = BlockedDefault /\ config.enable_code_validation
    /\ launches = 0 /\ script_file = File(<<"x">>)
    /\ run_ret.success = FALSE

\* C11: with enable_code_validation false, validate_code returns (true, [])
\* to run_code for every code string (deny-listed and unparsable ones too),
\* the call is never turned away: it goes on to save the code, the saved file
\* holds that very code, and the call returns only after one subprocess was
\* started on it.
C11_DisabledRunsAll ==
    (~config.enable_code_validation /\ run_pc # "idle") =>
        /\ (~run_skip => vresult = [is_valid |-> TRUE, issues |-> <<>>])
        /\ (launches = 0 => run_pc \in {"write", "exec", "raised"})
        /\ (run_pc = "exec" => script_file = File(run_arg))
        /\ (run_pc = "returned" => launches = 1 /\ launched = File(run_arg))

\* a code that is deny-listed and does not parse was executed
C11_Witness ==
    /\ ~config.enable_code_validation /\ config.blocked_imports = BlockedDefault
    /\ ~run_skip /\ run_arg = <<"x", "(">>
    /\ ~compile(run_arg).ok /\ Occurs(run_arg, <<"x", "(">>)
    /\ run_pc = "returned" /\ launches = 1 /\ launched = File(<<"x", "(">>)

\* the call in progress or just ended is one validation turns away
Rejected(skip, code) == ~skip /\ Invalid(code)

\* a step of or into a rejected call leaves the script file as it was
C14_RejectedKeepsFile ==
    (run_pc' # "idle" /\ Rejected(run_skip', run_arg')) => script_file' = script_file

\* the file changes only in the save step of a call, to the code of that call
C14_OnlySaveWrites ==
    script_file' # script_file => (run_pc = "write" /\ script_file' = File(run_arg))

\* the same, or to nothing when the write fails after the open truncated it
C14_OnlySaveWritesOrTruncates ==
    script_file' # script_file =>
        /\ run_pc = "write"
        /\ \/ script_file' = File(run_arg)
           \/ run_pc' = "raised" /\ script_file' = File(<<>>)

C23_ValidateWriteExecute ==
    /\ [][(run_pc' = "write" /\ run_pc # "write") =>
             (run_skip' \/ (vresult' # NoResult /\ vresult'.is_valid))]_vars
    /\ [][(run_pc' = "exec" /\ run_pc # "exec") =>
             (run_pc = "write" /\ script_file' = [exists |-> TRUE, content |-> run_arg])]_vars
    /\ [][(launches' > launches) =>
             (run_pc = "exec" /\ launched' = [exists |-> TRUE, content |-> run_arg])]_vars
    /\ [](launched # NoResult => launched = [exists |-> TRUE, content |-> run_arg])

\* "x" passed validation, was saved and run; its child exited with status 1
C23_Witness ==
    /\ run_pc = "returned" /\ ~run_skip /\ run_arg = <<"x">>
    /\ vresult # NoResult /\ vresult.is_valid
    /\ launches = 1 /\ launched = [exists |-> TRUE, content |-> <<"x">>]
    /\ proc # NoResult /\ proc.returncode = 1

\* C25: a run_code call with skip_validation true does not call the
\* validator; whatever the code, the call is not turned away, the saved file
\* holds the code, and the call returns only after one subprocess was started
\* on it, with the triple the outcome of that subprocess maps to.
C25_SkipRunsAll ==
    (run_pc # "idle" /\ run_skip) =>
        /\ vresult = NoResult
        /\ (launches = 0 => run_pc \in {"write", "exec", "raised"})
        /\ (run_pc = "exec" => script_file = File(run_arg))
        /\ (run_pc = "returned" =>
               /\ launches = 1 /\ launched = File(run_arg)
               /\ run_ret = MapOutcome(proc, config))

\* an unparsable code is run under a configuration that would reject it
C25_Witness ==
    /\ config.enable_code_validation /\ run_skip /\ run_arg = <<"(">>
    /\ ~compile(run_arg).ok
    /\ run_pc = "returned" /\ launches = 1 /\ launched = File(<<"(">>)
    /\ run_ret.success = TRUE

\* C6: when the subprocess was run, succeeded is true exactly when it exited
\* with status zero; an exit hands on the captured stdout and stderr; a
\* timeout gives false, empty stdout and the message naming
\* execution_timeout; any other launch error gives false, empty stdout and
\* the error's description.
C6_OutcomeMapping ==
    (run_pc = "returned" /\ launches > 0) =>
        /\ run_ret.success = (proc.kind = "exit" /\ proc.returncode = 0)
        /\ (proc.kind = "exit" =>
               run_ret.stdout = Plain(proc.stdout) /\ run_ret.stderr = Plain(proc.stderr))
        /\ (proc.kind = "timeout" =>
               /\ run_ret.stdout = Plain(<<>>)
               /\ run_ret.stderr.execution_timeout = config.execution_timeout)
        /\ (proc.kind = "error" =>
               run_ret.stdout = Plain(<<>>) /\ run_ret.stderr = Plain(proc.msg))

\* a child that printed and exited with status 2
C6_Witness ==
    /\ run_pc = "returned" /\ launches = 1
    /\ proc.kind = "exit" /\ proc.returncode = 2
    /\ run_ret = Triple(Plain(<<"H", "i">>), Plain(<<>>), FALSE)

\* C7 (as claimed): whichever step of run_code fails, the call returns a
\* triple and lets no error escape.
C7_NoExceptionEscapes == run_exc = NoError /\ run_pc # "raised"

\* ------------------------------------------------ properties of the pipeline
\* C4: with validation enabled, whatever the operator does (record, refine,
\* edit, run, analyze, fix, in any order), the file a subprocess of the
\* pipeline is started on holds the very code of that run step, and that code
\* holds no deny-listed string and parses: the validator accepted it in this
\* step (skip_validation is never set).
C4_OnlyValidatedCodeRuns ==
    (config.enable_code_validation /\ (run_pc = "exec" \/ launched # NoResult)) =>
        /\ ~run_skip
        /\ script_file = File(run_arg)
        /\ (launched # NoResult => launched = script_file)
        /\ ~Invalid(script_file.content)

\* a fixed artifact is executed, after a first repair cycle failed
C4_Witness ==
    /\ config.enable_code_validation
    /\ launched = File(<<"x">>) /\ launches = 1
    /\ fix_pending /\ cycles = 1

\* C22 (as claimed): a string a failed refine or fix produced ("# Error
\* calling LLM: ...", "# Error: ...") is never handed to run_code by the run
\* step and never handed to llm.fix_code by the fix step as the code to
\* repair.
C22_ErrorMarkedNeverUsed ==
    /\ (run_pc # "idle" => ~StartsWith(run_arg, ErrMark))
    /\ ((fix_call # NoResult /\ fix_call.sent) => ~StartsWith(fix_call.code, ErrMark))

\* C27 (as claimed): after a fix step that failed (the gateway was exhausted
\* or the client could not be built) the code the pipeline holds for the next
\* run, analyze or fix is the code that was handed to the fix step.
C27_FailedFixKeepsCode ==
    (fix_call # NoResult /\ fix_call.failed) => refined_code_area = fix_call.code

C5_RepairLoopBounded == cycles <= config.max_fix_retries

\* ------------------------------------------ properties of the script path
\* C20: when the two sessions have script paths of their own, the child of
\* each call is started on the code of that call, which its validator
\* accepted; when they share the path there is an interleaving in which the
\* child of one call is started on the code of the other (the witness).
C20_OwnCodeOnOwnPath ==
    (s_path[1] # s_path[2]) =>
        \A s \in Sessions :
            s_launched[s] # NoResult =>
                /\ s_launched[s] = File(s_arg[s])
                /\ ~Invalid(s_arg[s])

\* shared path: the child of session 1 was started on the code session 2
\* wrote, which the call of session 1 was never given
C20_Witness ==
    /\ s_path[1] = s_path[2]
    /\ s_pc[1] = "returned" /\ s_arg[1] = <<"x">> /\ s_arg[2] = <<"e">>
    /\ s_launched[1] = File(<<"e">>)

\* ----------------------------------- properties of the provider configuration
\* C29: a switch_provider call changes no provider entry and no other
\* setting; with a configured name it returns true and makes that name the
\* active provider, with any other name it returns false and the active
\* provider stays; and from the default configuration the active provider is
\* configured after every sequence of set_provider and switch_provider calls.
C29_SwitchKeepsActiveConfigured ==
    /\ [][(cfg_call' # NoResult /\ cfg_call'.fn = "switch_provider") =>
            /\ providers' = providers /\ config' = config
            /\ IF cfg_call'.name \in DOMAIN providers
                 THEN cfg_call'.ret = TRUE /\ active_provider' = cfg_call'.name
                 ELSE cfg_call'.ret = FALSE /\ active_provider' = active_provider]_vars
    /\ [](get_active_provider(active_provider, providers) # NoResult)

\* C29: a provider was added and made active, and a switch to a name that
\* is not configured has just returned false
C29_Witness ==
    /\ cfg_call = [fn |-> "switch_provider", name |-> "ghost", ret |-> FALSE]
    /\ active_provider = "mine"
    /\ providers["mine"].api_key = "sk-new"

\* what the configuration holds for a field of the active provider
C21_FromConfig(f) ==
    IF active_provider \in DOMAIN providers THEN providers[active_provider][f] ELSE ""

\* C21 (as claimed): each credential of a client is the argument when the
\* caller passed one, whatever its value, and the active provider's value
\* (the empty string without an active provider) when the caller passed none.
C21_SuppliedNeverReplaced ==
    client # NoResult =>
        \A f \in Fields :
            client.made[f] = IF client.args[f] # None THEN client.args[f]
                             ELSE C21_FromConfig(f)

\* C21: each credential of a client is the argument when the caller passed
\* a non-empty string, and the active provider's value (the empty string
\* without an active provider) when the caller passed None or the empty
\* string.
C21_NonEmptySuppliedNeverReplaced ==
    client # NoResult =>
        \A f \in Fields :
            client.made[f] = IF client.args[f] \notin {None, ""} THEN client.args[f]
                             ELSE C21_FromConfig(f)

\* C21: a client built with a key, an empty base url and no model, while the
\* active provider has a url and a model from the file
C21_Witness ==
    /\ client # NoResult
    /\ client.args = [api_key |-> "arg-key", base_url |-> "", model_name |-> None]
    /\ client.made = [api_key |-> "arg-key", base_url |-> "file-url",
                      model_name |-> "file-model"]

\* the configuration before the environment is merged into it
C30_Base ==
    IF config_file.exists /\ config_file.json_ok THEN from_dict(config_file.data)
    ELSE AppConfig

\* the variables of the environment that are set and name field f of provider p
C30_SetVars(p, f) ==
    {env_mappings[i].var : i \in {j \in 1..Len(env_mappings) :
        /\ env_mappings[j].provider = p
        /\ env_mappings[j].field = f
        /\ IsSet(environ, env_mappings[j].var)}}

\* C30: once the configuration is loaded, a field of a provider holds the
\* value of a provider-specific variable when one is set for it; otherwise,
\* for the active provider, the value of the generic LLM_ variable when that
\* is set; otherwise the value from the file or the defaults.
C30_GenericIsFallback ==
    loaded =>
        \A p \in DOMAIN providers, f \in Fields :
            IF C30_SetVars(p, f) # {}
              THEN providers[p][f] \in {environ[v] : v \in C30_SetVars(p, f)}
            ELSE IF p = C30_Base.active_provider /\ C30_SetVars("active", f) # {}
              THEN providers[p][f] \in {environ[v] : v \in C30_SetVars("active", f)}
            ELSE providers[p][f] = C30_Base.providers[p][f]

====
